---- MODULE Spec2Model ----
(***************************************************************************)
(* TcpClient (src/tcp_client.h, src/tcp_client.cpp), POSIX build (#else    *)
(* branches).  Every public operation of the class is one atomic action:   *)
(* the class is single-threaded and blocking, so no two operations         *)
(* interleave.  The operating system is the environment: each OS call the  *)
(* code issues is appended to a call log and answered nondeterministically *)
(* with any result the OS may give.                                        *)
(***************************************************************************)
EXTENDS Integers, Sequences, FiniteSets, TLC

\* ------------------------------------------------------------------ bounds
NumInst == 2          \* TcpClient objects (storage slots) in the program
NumHandles == 2       \* descriptors the OS can hand out
MaxCands == 2         \* longest candidate list getaddrinfo returns
MaxLen == 3           \* largest length / max_bytes argument

\* std::numeric_limits<int>::max(), scaled down so that a length above it
\* fits in the model (TLC's own integers are 32 bit wide).
IntMax == 2

Inst == 1..NumInst
Handles == 1..NumHandles

\* TcpClient::invalid_socket()
invalid_socket == -1

\* ------------------------------------------------------ the OS call log
OsCall(c, h, n, r) == [call |-> c, h |-> h, n |-> n, r |-> r]

\* The OS as the code sees it: the set of open descriptors, the calls made
\* by the running operation, and whether ::close was ever given a
\* descriptor that is not open.
OsState(o, l, b) == [open |-> o, log |-> l, bad |-> b]

Logged(os, c) == OsState(os.open, Append(os.log, c), os.bad)

\* An object of the class: its two data members.
Obj(s, c) == [socket_ |-> s, connected_ |-> c]

Result(obj, os, outcome, ret) ==
    [obj |-> obj, os |-> os, outcome |-> outcome, ret |-> ret]

\* ------------------------------------------------------ private helpers
\* TcpClient::close_socket(handle)
close_socket(handle, os) ==
    IF handle = invalid_socket
    THEN os
    ELSE OsState(os.open \ {handle},
                 Append(os.log, OsCall("close", handle, 0, 0)),
                 os.bad \/ handle \notin os.open)

\* reset_socket that leaves connected_ as it is
reset_socket_keeps_flag(obj) == Obj(invalid_socket, obj.connected_)

\* TcpClient::reset_socket()
reset_socket(obj) == Obj(invalid_socket, FALSE)

\* TcpClient::ensure_connected(): TRUE when it returns, FALSE when it throws
ensure_connected(obj) == ~(~obj.connected_ \/ obj.socket_ = invalid_socket)

\* close without reset_socket()
close_noreset(obj, os) ==
    LET os1 == IF obj.socket_ # invalid_socket
               THEN close_socket(obj.socket_, os)
               ELSE os
    IN  [obj |-> obj, os |-> os1]

\* TcpClient::close(): yields the object and the OS afterwards
close(obj, os) ==
    LET os1 == IF obj.socket_ # invalid_socket
               THEN close_socket(obj.socket_, os)
               ELSE os
    IN  [obj |-> reset_socket(obj), os |-> os1]

\* TcpClient::is_connected()
is_connected(obj) == obj.connected_

\* ------------------------------------------------------------- connect
\* What ::getaddrinfo can answer: success with a list of n candidates
\* (the code also guards against an empty list), or an error code with
\* results left nullptr.
GaiResults ==
    {[rc |-> 0, n |-> k] : k \in 0..MaxCands} \cup {[rc |-> -2, n |-> 0]}

\* candidate loop without the break after a successful ::connect
RECURSIVE ConnectLoop_nobreak(_, _, _, _)
ConnectLoop_nobreak(ptr, count, handle, os) ==
    IF ptr > count
    THEN {[handle |-> handle, os |-> os]}
    ELSE
      ConnectLoop_nobreak(ptr + 1, count, invalid_socket,
                  Logged(os, OsCall("socket", invalid_socket, ptr, -1)))
      \cup
      UNION { LET os1 == OsState(os.open \cup {h},
                                 Append(os.log, OsCall("socket", h, ptr, 0)),
                                 os.bad)
              IN  ConnectLoop_nobreak(ptr + 1, count, h,
                      Logged(os1, OsCall("connect", h, ptr, 0)))
                  \cup
                  ConnectLoop_nobreak(ptr + 1, count, invalid_socket,
                      close_socket(h,
                          Logged(os1, OsCall("connect", h, ptr, -1))))
            : h \in Handles \ os.open }

\* candidate loop without close_socket(handle) after a failed ::connect
RECURSIVE ConnectLoop_noclose(_, _, _, _)
ConnectLoop_noclose(ptr, count, handle, os) ==
    IF ptr > count
    THEN {[handle |-> handle, os |-> os]}
    ELSE
      ConnectLoop_noclose(ptr + 1, count, invalid_socket,
                  Logged(os, OsCall("socket", invalid_socket, ptr, -1)))
      \cup
      UNION { LET os1 == OsState(os.open \cup {h},
                                 Append(os.log, OsCall("socket", h, ptr, 0)),
                                 os.bad)
              IN  {[handle |-> h,
                    os |-> Logged(os1, OsCall("connect", h, ptr, 0))]}
                  \cup
                  ConnectLoop_noclose(ptr + 1, count, invalid_socket,
                      Logged(os1, OsCall("connect", h, ptr, -1)))
            : h \in Handles \ os.open }

\* The candidate loop of TcpClient::connect.  ptr is the position of the
\* current candidate in the list of count candidates (ptr > count is
\* nullptr), handle the local variable of that name.  Yields every
\* [handle, os] the loop can end with.
RECURSIVE ConnectLoop(_, _, _, _)
ConnectLoop(ptr, count, handle, os) ==
    IF ptr > count
    THEN {[handle |-> handle, os |-> os]}
    ELSE
      \* ::socket fails: handle == invalid_socket(), continue
      ConnectLoop(ptr + 1, count, invalid_socket,
                  Logged(os, OsCall("socket", invalid_socket, ptr, -1)))
      \cup
      UNION { LET os1 == OsState(os.open \cup {h},
                                 Append(os.log, OsCall("socket", h, ptr, 0)),
                                 os.bad)
              IN  \* ::connect returns 0: break
                  {[handle |-> h,
                    os |-> Logged(os1, OsCall("connect", h, ptr, 0))]}
                  \cup
                  \* ::connect fails: close_socket(handle), next candidate
                  ConnectLoop(ptr + 1, count, invalid_socket,
                      close_socket(h,
                          Logged(os1, OsCall("connect", h, ptr, -1))))
            : h \in Handles \ os.open }

\* TcpClient::connect after its close(): resolution, the candidate loop
\* and the adoption of the connected socket.  initialize_platform() has an
\* empty body in this build.
connect_resolve(obj, os) ==
    UNION {
      LET os1 == Logged(os, OsCall("getaddrinfo", invalid_socket, g.n, g.rc))
      IN  IF g.rc # 0 \/ g.n = 0
          THEN {Result(obj, os1, "ResolutionError", 0)}
          ELSE { LET os2 == Logged(l.os,
                        OsCall("freeaddrinfo", invalid_socket, 0, 0))
                 IN  IF l.handle = invalid_socket
                     THEN Result(obj, os2, "ConnectionError", 0)
                     ELSE Result(Obj(l.handle, TRUE), os2, "ok", 0)
               : l \in ConnectLoop(1, g.n, invalid_socket, os1) }
    : g \in GaiResults }

\* connect that forgets connected_ = true
connect_noflag(obj, hostEmpty, os) ==
    IF hostEmpty
    THEN {Result(obj, os, "InvalidArgument", 0)}
    ELSE LET c == close(obj, os)
         IN  { IF r.outcome = "ok"
               THEN Result(Obj(r.obj.socket_, FALSE), r.os, r.outcome, r.ret)
               ELSE r
             : r \in connect_resolve(c.obj, c.os) }

\* connect that closes the held socket before it looks at host
connect_close_first(obj, hostEmpty, os) ==
    LET c == close(obj, os)
    IN  IF hostEmpty
        THEN {Result(c.obj, c.os, "InvalidArgument", 0)}
        ELSE connect_resolve(c.obj, c.os)

\* connect without the close() of the held socket
connect_noclose(obj, hostEmpty, os) ==
    IF hostEmpty
    THEN {Result(obj, os, "InvalidArgument", 0)}
    ELSE connect_resolve(obj, os)

\* connect that closes the held socket only after the candidate loop
connect_close_late(obj, hostEmpty, os) ==
    IF hostEmpty
    THEN {Result(obj, os, "InvalidArgument", 0)}
    ELSE { LET c == close(obj, r.os)
           IN  Result(IF r.outcome = "ok" THEN r.obj ELSE c.obj,
                      c.os, r.outcome, r.ret)
         : r \in connect_resolve(obj, os) }

\* connect that sets connected_ before it knows the outcome
connect_flag_early(obj, hostEmpty, os) ==
    IF hostEmpty
    THEN {Result(obj, os, "InvalidArgument", 0)}
    ELSE LET c == close(obj, os)
         IN  { IF r.outcome = "ok"
               THEN r
               ELSE Result(Obj(r.obj.socket_, TRUE), r.os, r.outcome, r.ret)
             : r \in connect_resolve(c.obj, c.os) }

\* TcpClient::connect(host, port); hostEmpty is host.empty().
connect(obj, hostEmpty, os) ==
    IF hostEmpty
    THEN {Result(obj, os, "InvalidArgument", 0)}
    ELSE LET c == close(obj, os)
         IN  connect_resolve(c.obj, c.os)

\* ---------------------------------------------------------------- send
\* What ::send can answer to a request of chunk bytes: an error, nothing,
\* or any number of bytes up to the request.
SendResults(chunk) == -1..chunk

\* write loop that returns what was sent so far when a write fails
RECURSIVE SendLoop_partial(_, _, _, _)
SendLoop_partial(obj, length, total_sent, os) ==
    IF ~(total_sent < length)
    THEN {Result(obj, os, "ok", total_sent)}
    ELSE
      LET remaining == length - total_sent
          chunk == IF remaining > IntMax THEN IntMax ELSE remaining
      IN  UNION {
            LET os1 == Logged(os, OsCall("send", obj.socket_, chunk, sent))
            IN  IF sent <= 0
                THEN {Result(obj, os1, "ok", total_sent)}
                ELSE SendLoop_partial(obj, length, total_sent + sent, os1)
          : sent \in SendResults(chunk) }

\* write loop that tests total_sent < length after the write (do-while)
RECURSIVE SendLoop_dowhile(_, _, _, _)
SendLoop_dowhile(obj, length, total_sent, os) ==
    LET remaining == length - total_sent
        chunk == IF remaining > IntMax THEN IntMax ELSE remaining
    IN  UNION {
          LET os1 == Logged(os, OsCall("send", obj.socket_, chunk, sent))
          IN  IF sent <= 0
              THEN {Result(obj, os1, "TransferError", 0)}
              ELSE IF total_sent + sent < length
              THEN SendLoop_dowhile(obj, length, total_sent + sent, os1)
              ELSE {Result(obj, os1, "ok", total_sent + sent)}
        : sent \in SendResults(chunk) }

\* write loop that casts remaining to int without the clamp
RECURSIVE SendLoop_noclamp(_, _, _, _)
SendLoop_noclamp(obj, length, total_sent, os) ==
    IF ~(total_sent < length)
    THEN {Result(obj, os, "ok", total_sent)}
    ELSE
      LET remaining == length - total_sent
          chunk == remaining
      IN  UNION {
            LET os1 == Logged(os, OsCall("send", obj.socket_, chunk, sent))
            IN  IF sent <= 0
                THEN {Result(obj, os1, "TransferError", 0)}
                ELSE SendLoop_noclamp(obj, length, total_sent + sent, os1)
          : sent \in SendResults(chunk) }

\* The write loop of TcpClient::send(const void*, std::size_t).
RECURSIVE SendLoop(_, _, _, _)
SendLoop(obj, length, total_sent, os) ==
    IF ~(total_sent < length)
    THEN {Result(obj, os, "ok", total_sent)}
    ELSE
      LET remaining == length - total_sent
          chunk == IF remaining > IntMax THEN IntMax ELSE remaining
      IN  UNION {
            LET os1 == Logged(os, OsCall("send", obj.socket_, chunk, sent))
            IN  IF sent <= 0
                THEN {Result(obj, os1, "TransferError", 0)}
                ELSE SendLoop(obj, length, total_sent + sent, os1)
          : sent \in SendResults(chunk) }

\* TcpClient::send(const void* data, std::size_t length);
\* dataNull is data == nullptr.
send(obj, dataNull, length, os) ==
    IF ~ensure_connected(obj)
    THEN {Result(obj, os, "LogicError", 0)}
    ELSE IF dataNull /\ length > 0
    THEN {Result(obj, os, "InvalidArgument", 0)}
    ELSE SendLoop(obj, length, 0, os)

\* TcpClient::send(const std::string& data); size is data.size().
send_string(obj, size, os) ==
    IF size = 0
    THEN {Result(obj, os, "ok", 0)}
    ELSE send(obj, FALSE, size, os)

\* ------------------------------------------------------------- receive
\* What ::recv can answer to a request of len bytes.
RecvResults(len) == -1..len

\* receive that stays connected when the peer has shut down
receive_noclose(obj, max_bytes, os) ==
    IF ~ensure_connected(obj)
    THEN {Result(obj, os, "LogicError", 0)}
    ELSE IF max_bytes = 0
    THEN {Result(obj, os, "ok", 0)}
    ELSE
      { LET os1 == Logged(os, OsCall("recv", obj.socket_, max_bytes, received))
        IN  IF received > 0
            THEN Result(obj, os1, "ok", received)
            ELSE IF received = 0
            THEN Result(obj, os1, "ok", 0)
            ELSE Result(obj, os1, "TransferError", 0)
      : received \in RecvResults(max_bytes) }

\* receive without the early return for max_bytes == 0
receive_nozero(obj, max_bytes, os) ==
    IF ~ensure_connected(obj)
    THEN {Result(obj, os, "LogicError", 0)}
    ELSE
      { LET os1 == Logged(os, OsCall("recv", obj.socket_, max_bytes, received))
        IN  IF received > 0
            THEN Result(obj, os1, "ok", received)
            ELSE IF received = 0
            THEN LET c == close(obj, os1)
                 IN  Result(c.obj, c.os, "ok", 0)
            ELSE Result(obj, os1, "TransferError", 0)
      : received \in RecvResults(max_bytes) }

\* receive that closes the socket before it reports a failed ::recv
receive_close_on_error(obj, max_bytes, os) ==
    IF ~ensure_connected(obj)
    THEN {Result(obj, os, "LogicError", 0)}
    ELSE IF max_bytes = 0
    THEN {Result(obj, os, "ok", 0)}
    ELSE
      { LET os1 == Logged(os, OsCall("recv", obj.socket_, max_bytes, received))
            c == close(obj, os1)
        IN  IF received > 0
            THEN Result(obj, os1, "ok", received)
            ELSE IF received = 0
            THEN Result(c.obj, c.os, "ok", 0)
            ELSE Result(c.obj, c.os, "TransferError", 0)
      : received \in RecvResults(max_bytes) }

\* TcpClient::receive(max_bytes); the result is the size of the string
\* returned.
receive(obj, max_bytes, os) ==
    IF ~ensure_connected(obj)
    THEN {Result(obj, os, "LogicError", 0)}
    ELSE IF max_bytes = 0
    THEN {Result(obj, os, "ok", 0)}
    ELSE
      { LET os1 == Logged(os, OsCall("recv", obj.socket_, max_bytes, received))
        IN  IF received > 0
            THEN Result(obj, os1, "ok", received)
            ELSE IF received = 0
            THEN LET c == close(obj, os1)
                 IN  Result(c.obj, c.os, "ok", 0)
            ELSE Result(obj, os1, "TransferError", 0)
      : received \in RecvResults(max_bytes) }

\* ---------------------------------------------------------------- moves
\* move constructor that leaves other as it was
move_construct_copies(other) ==
    [self |-> Obj(other.socket_, other.connected_),
     other |-> other]

\* move constructor that takes the handle but not the connected flag
move_construct_dropflag(other) ==
    [self |-> Obj(other.socket_, FALSE),
     other |-> reset_socket(other)]

\* TcpClient::TcpClient(TcpClient&& other): the new object and other
move_construct(other) ==
    [self |-> Obj(other.socket_, other.connected_),
     other |-> reset_socket(other)]

\* move assignment without the this != &other test
move_assign_noselfcheck(self, other, same, os) ==
    LET c == close(self, os)
    IN  IF same
        THEN [self |-> c.obj, other |-> c.obj, os |-> c.os]
        ELSE [self |-> Obj(other.socket_, other.connected_),
              other |-> reset_socket(other),
              os |-> c.os]

\* move assignment that overwrites the destination without close()
move_assign_noclose(self, other, same, os) ==
    IF ~same
    THEN [self |-> Obj(other.socket_, other.connected_),
          other |-> reset_socket(other),
          os |-> os]
    ELSE [self |-> self, other |-> other, os |-> os]

\* TcpClient::operator=(TcpClient&& other); same is this == &other
move_assign(self, other, same, os) ==
    IF ~same
    THEN LET c == close(self, os)
         IN  [self |-> Obj(other.socket_, other.connected_),
              other |-> reset_socket(other),
              os |-> c.os]
    ELSE [self |-> self, other |-> other, os |-> os]

\* ------------------------------------------------------------ the state
VARIABLES
    alive,        \* alive[i]: object i is constructed and not yet destroyed
    socket_,      \* socket_[i]: the member socket_ of object i
    connected_,   \* connected_[i]: the member connected_ of object i
    open,         \* descriptors currently open in the OS
    badClose,     \* ::close was called on a descriptor that was not open
    last          \* the operation just performed: arguments, outcome,
                  \* returned value and OS calls issued

vars == <<alive, socket_, connected_, open, badClose, last>>

Self(i) == Obj(socket_[i], connected_[i])

Os0 == OsState(open, <<>>, badClose)

Op(op, i, other, arg, flag, outcome, ret, calls) ==
    [op |-> op, inst |-> i, other |-> other, arg |-> arg, flag |-> flag,
     outcome |-> outcome, ret |-> ret, calls |-> calls]

\* Store the object and the OS an operation on object i ended with.
Store(i, obj, os) ==
    /\ socket_' = [socket_ EXCEPT ![i] = obj.socket_]
    /\ connected_' = [connected_ EXCEPT ![i] = obj.connected_]
    /\ open' = os.open
    /\ badClose' = os.bad

\* One object, default constructed.
Init ==
    /\ alive = [i \in Inst |-> i = 1]
    /\ socket_ = [i \in Inst |-> invalid_socket]
    /\ connected_ = [i \in Inst |-> FALSE]
    /\ open = {}
    /\ badClose = FALSE
    /\ last = Op("construct", 1, 0, 0, FALSE, "ok", 0, <<>>)

\* TcpClient::TcpClient()
Construct(i) ==
    /\ ~alive[i]
    /\ alive' = [alive EXCEPT ![i] = TRUE]
    /\ Store(i, Obj(invalid_socket, FALSE), Os0)
    /\ last' = Op("construct", i, 0, 0, FALSE, "ok", 0, <<>>)

\* TcpClient::~TcpClient()
Destroy(i) ==
    /\ alive[i]
    /\ LET c == close(Self(i), Os0)
       IN  /\ Store(i, c.obj, c.os)
           /\ last' = Op("destroy", i, 0, 0, FALSE, "ok", 0, c.os.log)
    /\ alive' = [alive EXCEPT ![i] = FALSE]

\* TcpClient b(std::move(a)): dst is the new object, src the source
MoveConstruct(dst, src) ==
    /\ ~alive[dst] /\ alive[src] /\ dst # src
    /\ LET m == move_construct(Self(src))
       IN  /\ socket_' = [socket_ EXCEPT ![dst] = m.self.socket_,
                                         ![src] = m.other.socket_]
           /\ connected_' = [connected_ EXCEPT ![dst] = m.self.connected_,
                                               ![src] = m.other.connected_]
    /\ alive' = [alive EXCEPT ![dst] = TRUE]
    /\ UNCHANGED <<open, badClose>>
    /\ last' = Op("move_construct", dst, src, 0, FALSE, "ok", 0, <<>>)

\* b = std::move(a), also with a the same object as b
MoveAssign(dst, src) ==
    /\ alive[dst] /\ alive[src]
    /\ LET m == move_assign(Self(dst), Self(src), dst = src, Os0)
       IN  /\ socket_' = IF dst = src
                         THEN [socket_ EXCEPT ![dst] = m.self.socket_]
                         ELSE [socket_ EXCEPT ![dst] = m.self.socket_,
                                              ![src] = m.other.socket_]
           /\ connected_' = IF dst = src
                            THEN [connected_ EXCEPT ![dst] = m.self.connected_]
                            ELSE [connected_ EXCEPT ![dst] = m.self.connected_,
                                                    ![src] = m.other.connected_]
           /\ open' = m.os.open
           /\ badClose' = m.os.bad
           /\ last' = Op("move_assign", dst, src, 0, FALSE, "ok", 0, m.os.log)
    /\ UNCHANGED alive

\* c.connect(host, port)
Connect(i) ==
    /\ alive[i]
    /\ \E hostEmpty \in BOOLEAN :
         \E res \in connect(Self(i), hostEmpty, Os0) :
            /\ Store(i, res.obj, res.os)
            /\ last' = Op("connect", i, 0, 0, hostEmpty,
                          res.outcome, res.ret, res.os.log)
    /\ UNCHANGED alive

\* c.send(data, length)
Send(i) ==
    /\ alive[i]
    /\ \E dataNull \in BOOLEAN, length \in 0..MaxLen :
         \E res \in send(Self(i), dataNull, length, Os0) :
            /\ Store(i, res.obj, res.os)
            /\ last' = Op("send", i, 0, length, dataNull,
                          res.outcome, res.ret, res.os.log)
    /\ UNCHANGED alive

\* c.send(std::string)
SendString(i) ==
    /\ alive[i]
    /\ \E size \in 0..MaxLen :
         \E res \in send_string(Self(i), size, Os0) :
            /\ Store(i, res.obj, res.os)
            /\ last' = Op("send_string", i, 0, size, FALSE,
                          res.outcome, res.ret, res.os.log)
    /\ UNCHANGED alive

\* c.receive(max_bytes)
Receive(i) ==
    /\ alive[i]
    /\ \E max_bytes \in 0..MaxLen :
         \E res \in receive(Self(i), max_bytes, Os0) :
            /\ Store(i, res.obj, res.os)
            /\ last' = Op("receive", i, 0, max_bytes, FALSE,
                          res.outcome, res.ret, res.os.log)
    /\ UNCHANGED alive

\* c.close()
Close(i) ==
    /\ alive[i]
    /\ LET c == close(Self(i), Os0)
       IN  /\ Store(i, c.obj, c.os)
           /\ last' = Op("close", i, 0, 0, FALSE, "ok", 0, c.os.log)
    /\ UNCHANGED alive

\* c.is_connected()
IsConnected(i) ==
    /\ alive[i]
    /\ last' = Op("is_connected", i, 0, 0, FALSE, "ok",
                  IF is_connected(Self(i)) THEN 1 ELSE 0, <<>>)
    /\ UNCHANGED <<alive, socket_, connected_, open, badClose>>

Next ==
    \/ \E i \in Inst : Construct(i)
    \/ \E i \in Inst : Destroy(i)
    \/ \E dst, src \in Inst : MoveConstruct(dst, src)
    \/ \E dst, src \in Inst : MoveAssign(dst, src)
    \/ \E i \in Inst : Connect(i)
    \/ \E i \in Inst : Send(i)
    \/ \E i \in Inst : SendString(i)
    \/ \E i \in Inst : Receive(i)
    \/ \E i \in Inst : Close(i)
    \/ \E i \in Inst : IsConnected(i)

Spec == Init /\ [][Next]_vars

TypeOK ==
    /\ alive \in [Inst -> BOOLEAN]
    /\ socket_ \in [Inst -> Handles \cup {invalid_socket}]
    /\ connected_ \in [Inst -> BOOLEAN]
    /\ open \subseteq Handles
    /\ badClose \in BOOLEAN

\* ------------------------------------------------------------ properties
\* Positions of the calls of one kind in a call log
CallsOf(log, kinds) == {k \in 1..Len(log) : log[k].call \in kinds}

CloseCall(h) == OsCall("close", h, 0, 0)

\* C1: after every operation, whether it returned or threw, is_connected()
\* of every object is true exactly when its handle is not the "no socket"
\* sentinel.
C1_ConnectedIffHandle ==
    \A i \in Inst :
        alive[i] => (is_connected(Self(i)) <=> socket_[i] # invalid_socket)

\* an object that is still connected after an operation on it threw
C1_Witness ==
    /\ last.outcome = "TransferError"
    /\ alive[last.inst]
    /\ connected_[last.inst]
    /\ socket_[last.inst] \in Handles

\* C2: no open socket is held by two objects at once, every held socket
\* is open, and ::close is never given a socket that is not open (closed
\* before, or never opened).
C2_ExclusiveOwnership ==
    /\ \A i, j \in Inst :
          (i # j /\ socket_[i] # invalid_socket) => socket_[i] # socket_[j]
    /\ \A i \in Inst : socket_[i] # invalid_socket => socket_[i] \in open
    /\ ~badClose

\* a move assignment between two connected objects: the destination's
\* socket was closed and it now holds the source's
C2_Witness ==
    /\ last.op = "move_assign"
    /\ last.calls # <<>>
    /\ connected_[last.inst]
    /\ ~connected_[last.other]
    /\ socket_[last.inst] \in open

\* C3: every send (either overload, any length) and every receive (any
\* max_bytes) on an object that is not connected fails with LogicError and
\* issues no OS send/recv call.
C3_NotConnectedIsLogicError ==
    [][\A i \in Inst :
          (/\ alive[i]
           /\ ~connected_[i]
           /\ last'.inst = i
           /\ last'.op \in {"send", "send_string", "receive"})
          => /\ last'.outcome = "LogicError"
             /\ CallsOf(last'.calls, {"send", "recv"}) = {}]_vars

\* C4: a send of N bytes that returns, returns N, whatever the OS answered
\* to the single writes; a failing write makes the send fail.
C4_SendAllOrError ==
    last.op \in {"send", "send_string"} =>
        /\ last.outcome = "ok" => last.ret = last.arg
        /\ (\E k \in CallsOf(last.calls, {"send"}) : last.calls[k].r <= 0)
              => last.outcome = "TransferError"

\* a send that needed several partial writes and returned the full length
C4_Witness ==
    /\ last.op = "send"
    /\ last.outcome = "ok"
    /\ Len(last.calls) >= 2
    /\ last.ret = last.arg
    /\ last.calls[1].r < last.calls[1].n

\* C5: when receive(max_bytes > 0) on a connected object gets 0 from
\* ::recv, it returns an empty string without an error, closes the held
\* socket, and leaves the object not connected with the sentinel handle.
C5_PeerCloseDisconnects ==
    [][\A i \in Inst :
          (/\ alive[i]
           /\ connected_[i]
           /\ last'.op = "receive"
           /\ last'.inst = i
           /\ last'.arg > 0
           /\ \E k \in CallsOf(last'.calls, {"recv"}) : last'.calls[k].r = 0)
          => /\ last'.outcome = "ok"
             /\ last'.ret = 0
             /\ last'.calls = <<OsCall("recv", socket_[i], last'.arg, 0),
                                CloseCall(socket_[i])>>
             /\ socket_[i] \notin open'
             /\ ~connected_'[i]
             /\ socket_'[i] = invalid_socket]_vars

\* a receive that saw the peer's shutdown
C5_Witness ==
    /\ last.op = "receive"
    /\ last.arg > 0
    /\ last.outcome = "ok"
    /\ last.ret = 0
    /\ Len(last.calls) = 2
    /\ last.calls[1].r = 0
    /\ ~connected_[last.inst]

\* C6: after a connect that returned, the object is connected and its
\* handle is the socket on which ::connect succeeded (there is one such
\* socket, and it is open).
C6_ConnectAdopts ==
    (last.op = "connect" /\ last.outcome = "ok") =>
        /\ connected_[last.inst]
        /\ \E k \in CallsOf(last.calls, {"connect"}) :
              /\ last.calls[k].r = 0
              /\ socket_[last.inst] = last.calls[k].h
              /\ \A m \in CallsOf(last.calls, {"connect"}) :
                    last.calls[m].r = 0 => m = k
        /\ socket_[last.inst] \in open

\* a successful connect on an object that was connected before, after a
\* first candidate that failed
C6_Witness ==
    /\ last.op = "connect"
    /\ last.outcome = "ok"
    /\ last.calls[1].call = "close"
    /\ Cardinality(CallsOf(last.calls, {"connect"})) = 2
    /\ connected_[last.inst]

\* C7: close() never fails; it leaves the object not connected with the
\* sentinel handle; it closes the held socket exactly when one was held;
\* a second close() right after a close() closes nothing and changes no
\* state.
C7_CloseIdempotent ==
    [][\A i \in Inst :
          (last'.op = "close" /\ last'.inst = i) =>
             /\ last'.outcome = "ok"
             /\ ~connected_'[i]
             /\ socket_'[i] = invalid_socket
             /\ socket_[i] # invalid_socket =>
                   /\ last'.calls = <<CloseCall(socket_[i])>>
                   /\ open' = open \ {socket_[i]}
             /\ socket_[i] = invalid_socket =>
                   /\ last'.calls = <<>>
                   /\ open' = open
             /\ (last.op = "close" /\ last.inst = i) =>
                   /\ last'.calls = <<>>
                   /\ UNCHANGED <<alive, socket_, connected_, open, badClose>>
      ]_vars

\* a close() that released a socket
C7_Witness ==
    /\ last.op = "close"
    /\ Len(last.calls) = 1
    /\ last.calls[1].call = "close"
    /\ last.calls[1].h \notin open
    /\ socket_[last.inst] = invalid_socket

\* C8: connect with an empty host fails with InvalidArgument before any
\* other effect: no OS call at all (no resolution, no socket opened or
\* closed) and handle and connected flag unchanged.
C8_EmptyHostNoEffect ==
    [][\A i \in Inst :
          (last'.op = "connect" /\ last'.inst = i /\ last'.flag) =>
             /\ last'.outcome = "InvalidArgument"
             /\ last'.calls = <<>>
             /\ UNCHANGED <<alive, socket_, connected_, open, badClose>>
      ]_vars

\* a connected object that is still connected after connect("", port)
C8_Witness ==
    /\ last.op = "connect"
    /\ last.flag
    /\ last.outcome = "InvalidArgument"
    /\ connected_[last.inst]
    /\ socket_[last.inst] \in open

\* C9: after a connect that failed with ResolutionError or with
\* ConnectionError the object is not connected and holds the sentinel.
C9_FailedConnectDisconnected ==
    (last.op = "connect"
       /\ last.outcome \in {"ResolutionError", "ConnectionError"}) =>
        /\ ~connected_[last.inst]
        /\ socket_[last.inst] = invalid_socket

\* a failed connect on an object that was connected before the call
C9_Witness ==
    /\ last.op = "connect"
    /\ last.outcome \in {"ResolutionError", "ConnectionError"}
    /\ last.calls[1].call = "close"
    /\ ~connected_[last.inst]

\* C10: connect with a non-empty host on a connected object closes the
\* held socket first, before getaddrinfo and before any socket is opened,
\* and releases it once: every later ::close of the call is for a socket
\* this call opened and failed to connect.
C10_ReconnectClosesFirst ==
    [][\A i \in Inst :
          (/\ alive[i]
           /\ connected_[i]
           /\ last'.op = "connect"
           /\ last'.inst = i
           /\ ~last'.flag)
          => /\ Len(last'.calls) >= 2
             /\ last'.calls[1] = CloseCall(socket_[i])
             /\ last'.calls[2].call = "getaddrinfo"
             /\ \A k \in CallsOf(last'.calls, {"close"}) :
                   k > 1 =>
                      /\ last'.calls[k - 1] =
                            OsCall("connect", last'.calls[k].h,
                                   last'.calls[k - 1].n, -1)
                      /\ last'.calls[k - 2] =
                            OsCall("socket", last'.calls[k].h,
                                   last'.calls[k - 1].n, 0)
             /\ ~badClose'
             /\ last'.outcome # "ok" => socket_[i] \notin open'
      ]_vars

\* a reconnect whose new socket got the descriptor of the old one
C10_Witness ==
    /\ last.op = "connect"
    /\ ~last.flag
    /\ last.outcome = "ok"
    /\ last.calls[1].call = "close"
    /\ socket_[last.inst] = last.calls[1].h

\* C11: move-constructing B from a connected A makes B connected with A's
\* former handle and leaves A not connected with the sentinel, without any
\* OS call; a close() or destruction of an object that holds the sentinel
\* (such as A afterwards) closes nothing and leaves every other object's
\* handle and connected flag unchanged.
C11_MoveConstructTransfers ==
    [][/\ \A a, b \in Inst :
            (/\ last'.op = "move_construct"
             /\ last'.inst = b
             /\ last'.other = a
             /\ connected_[a])
            => /\ connected_'[b]
               /\ socket_'[b] = socket_[a]
               /\ ~connected_'[a]
               /\ socket_'[a] = invalid_socket
               /\ last'.calls = <<>>
               /\ open' = open
       /\ \A a \in Inst :
            (/\ last'.op \in {"close", "destroy"}
             /\ last'.inst = a
             /\ socket_[a] = invalid_socket)
            => /\ last'.calls = <<>>
               /\ open' = open
               /\ \A b \in Inst \ {a} :
                     /\ socket_'[b] = socket_[b]
                     /\ connected_'[b] = connected_[b]
      ]_vars

\* B was move-constructed from a connected A
C11_Witness ==
    /\ last.op = "move_construct"
    /\ connected_[last.inst]
    /\ socket_[last.inst] \in open
    /\ alive[last.other]
    /\ socket_[last.other] = invalid_socket

\* C12: move-assigning a distinct source A into B closes the socket B held
\* (if any) once, B then has A's handle and connected flag and A is reset;
\* move-assigning an object to itself makes no OS call and changes nothing.
C12_MoveAssignReleases ==
    [][\A b, a \in Inst :
          (last'.op = "move_assign" /\ last'.inst = b /\ last'.other = a) =>
             IF a # b
             THEN /\ last'.calls = IF socket_[b] # invalid_socket
                                   THEN <<CloseCall(socket_[b])>>
                                   ELSE <<>>
                  /\ open' = open \ {socket_[b]}
                  /\ socket_'[b] = socket_[a]
                  /\ connected_'[b] = connected_[a]
                  /\ socket_'[a] = invalid_socket
                  /\ ~connected_'[a]
                  /\ ~badClose'
             ELSE /\ last'.calls = <<>>
                  /\ UNCHANGED <<alive, socket_, connected_, open, badClose>>
      ]_vars

\* a connected object was move-assigned to itself and is still connected
C12_Witness ==
    /\ last.op = "move_assign"
    /\ last.inst = last.other
    /\ connected_[last.inst]
    /\ socket_[last.inst] \in open
    /\ last.calls = <<>>

\* C13 (as stated): every object starts not connected with the sentinel
\* handle, and is_connected() of an object goes from false to true only in
\* a successful connect on that object.
C13_OnlyConnectConnects ==
    /\ \A i \in Inst :
          alive[i] => (~connected_[i] /\ socket_[i] = invalid_socket)
    /\ [][\A i \in Inst :
             /\ (~alive[i] /\ alive'[i]) =>
                   (~connected_'[i] /\ socket_'[i] = invalid_socket)
             /\ (alive[i] /\ alive'[i] /\ ~connected_[i] /\ connected_'[i]) =>
                   /\ last'.op = "connect"
                   /\ last'.inst = i
                   /\ last'.outcome = "ok"
         ]_vars

\* C13 (amended): a default-constructed object starts not connected with
\* the sentinel handle and a move-constructed one with the handle and flag
\* of its source; is_connected() of an object goes from false to true only
\* in a successful connect on it or in a move assignment into it from
\* another, connected object.
C13_ConnectOrMoveConnects ==
    /\ \A i \in Inst :
          alive[i] => (~connected_[i] /\ socket_[i] = invalid_socket)
    /\ [][\A i \in Inst :
             /\ (~alive[i] /\ alive'[i]) =>
                   \/ /\ last'.op = "construct"
                      /\ last'.inst = i
                      /\ ~connected_'[i]
                      /\ socket_'[i] = invalid_socket
                   \/ /\ last'.op = "move_construct"
                      /\ last'.inst = i
                      /\ connected_'[i] = connected_[last'.other]
                      /\ socket_'[i] = socket_[last'.other]
             /\ (alive[i] /\ alive'[i] /\ ~connected_[i] /\ connected_'[i]) =>
                   \/ /\ last'.op = "connect"
                      /\ last'.inst = i
                      /\ last'.outcome = "ok"
                   \/ /\ last'.op = "move_assign"
                      /\ last'.inst = i
                      /\ last'.other # i
                      /\ connected_[last'.other]
         ]_vars

\* an object that held no socket became connected by a move assignment
C13_Witness ==
    /\ last.op = "move_assign"
    /\ last.inst # last.other
    /\ last.calls = <<>>
    /\ connected_[last.inst]
    /\ socket_[last.inst] \in open

\* C14: every open socket is held by an object, so once every object is
\* destroyed no socket that a connect adopted is still open.
C14_NoLeak ==
    /\ open = {socket_[i] : i \in Inst} \ {invalid_socket}
    /\ \A i \in Inst : ~alive[i] => socket_[i] = invalid_socket
    /\ (\A i \in Inst : ~alive[i]) => open = {}

\* the last object was destroyed while connected; its destructor closed
\* the socket
C14_Witness ==
    /\ \A i \in Inst : ~alive[i]
    /\ last.op = "destroy"
    /\ Len(last.calls) = 1
    /\ last.calls[1].call = "close"
    /\ open = {}

\* C15: on a connected object a zero-length send, by either overload and
\* with or without a data pointer, returns 0, makes no OS call and leaves
\* handle and connected flag as they were.
C15_ZeroLengthSend ==
    [][\A i \in Inst :
          (/\ alive[i]
           /\ connected_[i]
           /\ last'.op \in {"send", "send_string"}
           /\ last'.inst = i
           /\ last'.arg = 0)
          => /\ last'.outcome = "ok"
             /\ last'.ret = 0
             /\ last'.calls = <<>>
             /\ UNCHANGED <<alive, socket_, connected_, open, badClose>>
      ]_vars

\* send(nullptr, 0) returned 0 on a connected object
C15_Witness ==
    /\ last.op = "send"
    /\ last.arg = 0
    /\ last.flag
    /\ last.outcome = "ok"
    /\ last.ret = 0
    /\ connected_[last.inst]

\* C16: on a connected object receive(0) returns an empty string, makes no
\* OS call and leaves the object connected with the same handle.
C16_ReceiveZero ==
    [][\A i \in Inst :
          (/\ alive[i]
           /\ connected_[i]
           /\ last'.op = "receive"
           /\ last'.inst = i
           /\ last'.arg = 0)
          => /\ last'.outcome = "ok"
             /\ last'.ret = 0
             /\ last'.calls = <<>>
             /\ UNCHANGED <<alive, socket_, connected_, open, badClose>>
      ]_vars

\* receive(0) returned on an object that is still connected
C16_Witness ==
    /\ last.op = "receive"
    /\ last.arg = 0
    /\ last.outcome = "ok"
    /\ last.ret = 0
    /\ last.calls = <<>>
    /\ connected_[last.inst]
    /\ socket_[last.inst] \in open

\* The position of the getaddrinfo call in the log of a connect (0: none)
GaiPos(log) ==
    IF CallsOf(log, {"getaddrinfo"}) = {}
    THEN 0
    ELSE CHOOSE k \in CallsOf(log, {"getaddrinfo"}) : TRUE

\* C17: connect tries the candidates in resolver order, one at a time:
\* the k-th ::socket call is for candidate k, a socket that was created is
\* connected at once, nothing is tried after a ::connect that succeeded and
\* its socket is the one adopted, and connect fails with ConnectionError
\* exactly when every candidate of the list was tried and none connected.
C17_CandidateOrder ==
    last.op = "connect" =>
        LET log == last.calls
            S == CallsOf(log, {"socket"})
            C == CallsOf(log, {"connect"})
            Won == {k \in C : log[k].r = 0}
            g == GaiPos(log)
            count == IF g = 0 THEN 0 ELSE log[g].n
        IN  /\ \A k \in S :
                  /\ g # 0 /\ k > g
                  /\ log[k].n = Cardinality({j \in S : j <= k})
                  /\ log[k].h # invalid_socket =>
                        /\ k + 1 \in C
                        /\ log[k + 1].h = log[k].h
                        /\ log[k + 1].n = log[k].n
            /\ \A k \in C : k - 1 \in S /\ log[k - 1].h # invalid_socket
            /\ Cardinality(S) <= count
            /\ \A k \in Won :
                  /\ \A j \in S \cup C : j <= k
                  /\ socket_[last.inst] = log[k].h
            /\ last.outcome = "ok" <=> Won # {}
            /\ last.outcome = "ConnectionError" <=>
                  /\ g # 0 /\ log[g].r = 0
                  /\ count > 0
                  /\ Cardinality(S) = count
                  /\ Won = {}

\* the first of two candidates connected and the second was never tried
C17_Witness ==
    /\ last.op = "connect"
    /\ last.outcome = "ok"
    /\ GaiPos(last.calls) # 0
    /\ last.calls[GaiPos(last.calls)].n = 2
    /\ Cardinality(CallsOf(last.calls, {"socket"})) = 1
    /\ connected_[last.inst]

\* C18: when connect ends, every socket it opened and failed to connect
\* was closed once, right after the failed ::connect; the socket that
\* connected is not closed and is the one held; a failed ::socket is
\* followed by no ::close; after ConnectionError no socket opened by the
\* call is open.
C18_LoopSocketsClosed ==
    last.op = "connect" =>
        LET log == last.calls
            S == CallsOf(log, {"socket"})
            C == CallsOf(log, {"connect"})
            g == GaiPos(log)
            LoopCloses == {k \in CallsOf(log, {"close"}) : k > g}
        IN  /\ \A k \in S :
                  IF log[k].h = invalid_socket
                  THEN /\ k + 1 <= Len(log)
                       /\ log[k + 1].call \in {"socket", "freeaddrinfo"}
                  ELSE /\ k + 1 \in C
                       /\ log[k + 1].h = log[k].h
                       /\ log[k + 1].r # 0 =>
                             /\ k + 2 <= Len(log)
                             /\ log[k + 2] = CloseCall(log[k].h)
                       /\ log[k + 1].r = 0 =>
                             /\ \A j \in LoopCloses : j < k
                             /\ log[k].h \in open
                             /\ socket_[last.inst] = log[k].h
            /\ Cardinality(LoopCloses) =
                  Cardinality({k \in C : log[k].r # 0})
            /\ \A j \in LoopCloses : j - 1 \in C /\ log[j - 1].r # 0
            /\ last.outcome = "ConnectionError" =>
                  \A k \in S : log[k].h \notin open
            /\ ~badClose

\* a connect that failed after one candidate without a socket and one
\* whose socket did not connect
C18_Witness ==
    /\ last.op = "connect"
    /\ last.outcome = "ConnectionError"
    /\ \E k \in CallsOf(last.calls, {"socket"}) :
          last.calls[k].h = invalid_socket
    /\ \E k \in CallsOf(last.calls, {"close"}) : k > GaiPos(last.calls)

\* Bytes the first k calls of a send log reported as written
RECURSIVE SentBy(_, _)
SentBy(log, k) == IF k = 0 THEN 0 ELSE SentBy(log, k - 1) + log[k].r

\* C19: every ::send of the write loop asks for min(remaining, INT_MAX)
\* bytes, at least 1 and at most length - total_sent; total_sent never
\* exceeds length; a write either adds at least 1 to total_sent or, with a
\* result <= 0, is the last one and ends the send with TransferError; the
\* loop makes at most length writes.
C19_SendLoopBounded ==
    last.op \in {"send", "send_string"} =>
        LET log == last.calls
        IN  /\ \A k \in 1..Len(log) :
                  LET remaining == last.arg - SentBy(log, k - 1)
                  IN  /\ log[k].call = "send"
                      /\ log[k].n = IF remaining > IntMax
                                    THEN IntMax
                                    ELSE remaining
                      /\ 1 <= log[k].n
                      /\ log[k].n <= remaining
                      /\ log[k].r <= 0 =>
                            (k = Len(log) /\ last.outcome = "TransferError")
                      /\ log[k].r > 0 => SentBy(log, k) <= last.arg
            /\ Len(log) <= last.arg
            /\ (last.outcome = "ok" /\ log # <<>>) =>
                  SentBy(log, Len(log)) = last.arg
            /\ last.outcome = "TransferError" =>
                  (log # <<>> /\ log[Len(log)].r <= 0)

\* a send of more than INT_MAX bytes whose first write was clamped
C19_Witness ==
    /\ last.op \in {"send", "send_string"}
    /\ last.arg > IntMax
    /\ last.outcome = "ok"
    /\ last.calls[1].n = IntMax
    /\ last.ret = last.arg

\* What a send or receive that failed with TransferError on a connected
\* object leaves behind: no ::close, nothing changed.
TransferErrorKeeps(i) ==
    (/\ alive[i]
     /\ connected_[i]
     /\ last'.op \in {"send", "send_string", "receive"}
     /\ last'.inst = i
     /\ last'.outcome = "TransferError")
    => /\ CallsOf(last'.calls, {"close"}) = {}
       /\ UNCHANGED <<alive, socket_, connected_, open, badClose>>

\* C20 (as stated): a TransferError leaves the socket open and the object
\* connected with the same handle, and the socket is then released only by
\* a close(), a reconnect, a move assignment into the object or its
\* destruction.
C20_ReleasedOnlyByFour ==
    [][\A i \in Inst :
          /\ TransferErrorKeeps(i)
          /\ (/\ last.outcome = "TransferError"
              /\ last.inst = i
              /\ socket_[i] \in open
              /\ socket_[i] \notin open')
             => /\ last'.inst = i
                /\ \/ last'.op \in {"close", "destroy", "move_assign"}
                   \/ last'.op = "connect" /\ ~last'.flag
      ]_vars

\* C20 (amended): a TransferError leaves the socket open and the object
\* connected with the same handle; a socket is released only by an
\* operation on the object that holds it, and that operation is a close(),
\* a receive that sees the peer's shutdown, a reconnect, a move assignment
\* into the object or its destruction.
C20_ReleasedOnlyByOwner ==
    [][/\ \A i \in Inst : TransferErrorKeeps(i)
       /\ \A h \in open \ open' :
             /\ socket_[last'.inst] = h
             /\ \/ last'.op \in {"close", "destroy", "move_assign"}
                \/ last'.op = "connect" /\ ~last'.flag
                \/ /\ last'.op = "receive"
                   /\ last'.arg > 0
                   /\ last'.outcome = "ok"
                   /\ last'.ret = 0
      ]_vars

\* a send failed after a first write went through; the object is still
\* connected to the open socket
C20_Witness ==
    /\ last.op = "send"
    /\ last.outcome = "TransferError"
    /\ Len(last.calls) >= 2
    /\ connected_[last.inst]
    /\ socket_[last.inst] \in open

====
